---- MODULE Spec2Model ----
(***************************************************************************)
(* The client-side document rendering and highlight-navigation engine of   *)
(* frontend/app.js: the module-level state, the DOM it writes, and the     *)
(* async handlers (sendChat, goToHit, openDoc, deleteDoc, clearResults)    *)
(* cut at their await points.  One action is one run of the event loop:    *)
(* an event handler or a resumed continuation, up to its next await on a   *)
(* network, timer or renderer promise.                                     *)
(***************************************************************************)
EXTENDS Integers, Sequences, FiniteSets, TLC

\* ------------------------------------------------------------ bounds
MaxOrder == 2      \* longest match-order sequence a response carries
MaxTasks == 2      \* async handler invocations in flight at once
MaxCalls == 3      \* handler invocations the user starts in one session

\* ------------------------------------------------------------ the store
Docs == {"d1", "d2"}
NoDoc == "null"

DocName(d) == IF d = "d1" THEN "Payslip.pdf" ELSE "Bank.pdf"

\* page count of a stored document (manifest length, pdf.numPages)
PagesOf(d) == IF d = "d1" THEN 1 ELSE 2

\* rendered pixel size of a page surface once it is known
PageSize == [w |-> 800, h |-> 1000]

\* MatchOrderItem {doc_id, doc_name, page}
Entry(d, p) == [doc_id |-> d, doc_name |-> DocName(d), page |-> p]

NoEntry == [doc_id |-> NoDoc, doc_name |-> "", page |-> 0]

EntriesOf(ds) == {Entry(x[1], x[2]) : x \in {y \in ds \X {0, 1} : y[2] < PagesOf(y[1])}}

\* every match-order sequence the search engine can answer over the stored docs
OrdersOver(ds) == UNION {[1..n -> EntriesOf(ds)] : n \in 0..MaxOrder}

\* normalized rect [x0,y0,x1,y1] of a hit, in tenths of the page
RectOf(e) == IF e.doc_id = "d1" THEN <<1, 2, 5, 6>>
             ELSE IF e.page = 0 THEN <<2, 1, 6, 3>> ELSE <<3, 4, 9, 5>>

RECURSIVE HighlightsOf(_, _)
\* SearchHighlight {page, rects} of document d, one per hit, in order
HighlightsOf(order, d) ==
    IF order = <<>> THEN <<>>
    ELSE LET e == Head(order)
             rest == HighlightsOf(Tail(order), d)
         IN IF e.doc_id = d
            THEN <<[page |-> e.page, rects |-> <<RectOf(e)>>]>> \o rest
            ELSE rest

DocSeq == <<"d1", "d2">>

RECURSIVE ResultsUpTo(_, _)
ResultsUpTo(order, k) ==
    IF k = 0 THEN <<>>
    ELSE LET d == DocSeq[k]
             hs == HighlightsOf(order, d)
             prev == ResultsUpTo(order, k - 1)
         IN IF hs = <<>> THEN prev
            ELSE prev \o <<[doc_id |-> d, total_hits |-> Len(hs), highlights |-> hs]>>

\* SearchResult[] of a response: one entry per document with a hit
ResultsOf(order) == ResultsUpTo(order, Len(DocSeq))

\* ------------------------------------------------------------ state
\* state.currentPDF is written by the two renderers and read nowhere; it is
\* left out.
VARIABLES
    docs,            \* state.docs (ids of the listed documents)
    currentDocId,    \* state.currentDocId
    results,         \* state.results: [null, list]
    order,           \* state.order
    navIndex,        \* state.navIndex
    filter,          \* state.filter
    docList,         \* rows of #docList: the hit count shown for each listed document
    container,       \* children of #pdfContainer
    hitStatus,       \* #hitStatus text
    prevDisabled,    \* #prevHit.disabled
    nextDisabled,    \* #nextHit.disabled
    matchesList,     \* #matchesList items
    emptyMatches,    \* #emptyMatches shown
    config,          \* window.DocChaseConfig.pdf and localStorage['docchat:pdfCdn']
    pdfjsLib,        \* window.pdfjsLib
    workerSrc,       \* GlobalWorkerOptions.workerSrc of the adopted engine
    serverDocs,      \* documents the store holds
    tasks,           \* async invocations in flight, oldest first
    calls,           \* handler invocations the user has started
    newest,          \* the most recently dispatched query: its highlights, whether sendChat returned
    started,         \* the module state when the operation in flight was called
    generator,       \* llm.js: generator
    status,          \* llm.js: status
    ready,           \* llm.js: ready
    useTransformersCdn,  \* llm.js: useTransformersCdn
    transformersPref,    \* localStorage['docchat:transformersCdn']
    transformersConfig,  \* window.DocChaseConfig.transformers
    last             \* the last handler or continuation that ran

vars == <<docs, currentDocId, results, order, navIndex, filter, docList, container,
          hitStatus, prevDisabled, nextDisabled, matchesList, emptyMatches,
          config, pdfjsLib, workerSrc, serverDocs, tasks, calls, newest, started,
          generator, status, ready, useTransformersCdn, transformersPref,
          transformersConfig, last>>

stateVars == <<docs, currentDocId, results, order, navIndex>>
domVars == <<container, hitStatus, prevDisabled, nextDisabled, matchesList, emptyMatches>>
navDom == <<hitStatus, prevDisabled, nextDisabled, matchesList, emptyMatches>>
envVars == <<config, pdfjsLib, workerSrc, serverDocs>>
listVars == <<filter, docList>>
llmVars == <<generator, status, ready, useTransformersCdn, transformersPref, transformersConfig>>
appVars == <<stateVars, listVars, domVars, envVars, newest>>

NullResults == [null |-> TRUE, list |-> <<>>]
ListResults(l) == [null |-> FALSE, list |-> l]

\* an invocation suspended at pc: from is the handler it began in, doc the
\* docId of its openDoc/deleteDoc, tgt the target of its goToHit, i its page,
\* new whether it is the sendChat of the most recently dispatched query
Task(pc, from, doc, tgt, i) ==
    [pc |-> pc, from |-> from, doc |-> doc, tgt |-> tgt, i |-> i, new |-> FALSE]

\* the normalized rects of every highlight of a results list
RECURSIVE RectsOfHighlights(_)
RectsOfHighlights(hls) ==
    IF hls = <<>> THEN {}
    ELSE {Head(hls).rects[j] : j \in DOMAIN Head(hls).rects} \cup RectsOfHighlights(Tail(hls))

RectsOfResults(list) == UNION {RectsOfHighlights(list[k].highlights) : k \in DOMAIN list}

NoQuery == [done |-> FALSE, rects |-> {}]

\* op: the step; doc, idx: its arguments (the docId, the input text, the
\* request that failed, an index or a count); ended: goToHit returned in it
Last(op, doc, idx, ended) == [op |-> op, doc |-> doc, idx |-> idx, ended |-> ended]
Other == Last("other", NoDoc, 0, FALSE)

\* ------------------------------------------------------------ numbers
\* A JavaScript Number is an IEEE-754 double: [m, e] stands for m * 2^e with m
\* an odd natural below 2^Precision; zero is [<<>>, 0].  A natural is written
\* as a sequence of limbs, digits to the base Base, lowest first, the highest
\* limb not zero.
Precision == 53
LimbBits == 16
Base == 65536

Limb(b, i) == IF i \in DOMAIN b THEN b[i] ELSE 0

\* bit j of b, counted from 0
BitAt(b, j) == (Limb(b, (j \div LimbBits) + 1) \div 2^(j % LimbBits)) % 2

RECURSIVE Strip(_)
\* without the zero limbs above the highest one
Strip(b) == IF b = <<>> \/ b[Len(b)] # 0 THEN b ELSE Strip(SubSeq(b, 1, Len(b) - 1))

\* number of bits of the stripped natural b
BitLen(b) ==
    IF b = <<>> THEN 0
    ELSE LimbBits * (Len(b) - 1)
         + (CHOOSE t \in 1..LimbBits : 2^(t - 1) <= b[Len(b)] /\ b[Len(b)] < 2^t)

\* b \div 2^s
ShiftRight(b, s) ==
    LET q == s \div LimbBits
        r == s % LimbBits
        f == [i \in 1..Len(b) |->
                 (Limb(b, i + q) \div 2^r) + (Limb(b, i + q + 1) % 2^r) * 2^(LimbBits - r)]
    IN Strip(SubSeq(f, 1, Len(b)))

\* b * 2^s
ShiftLeft(b, s) ==
    LET q == s \div LimbBits
        r == s % LimbBits
        f == [i \in 1..(Len(b) + q + 1) |->
                 ((Limb(b, i - q) * 2^r) % Base) + (Limb(b, i - q - 1) \div 2^(LimbBits - r))]
    IN Strip(SubSeq(f, 1, Len(b) + q + 1))

\* the double m * 2^e for a natural m of at most Precision bits
Canon(m, e) ==
    IF m = <<>> THEN [m |-> <<>>, e |-> 0]
    ELSE LET z == CHOOSE j \in 0..(LimbBits * Len(m) - 1) :
                      BitAt(m, j) = 1 /\ \A i \in 0..(j - 1) : BitAt(m, i) = 0
         IN [m |-> ShiftRight(m, z), e |-> e + z]

RECURSIVE Inc(_)
Inc(b) == IF b = <<>> THEN <<1>>
          ELSE IF Head(b) + 1 < Base THEN <<Head(b) + 1>> \o Tail(b)
          ELSE <<0>> \o Inc(Tail(b))

\* round b * 2^e to Precision bits, to nearest, ties to even; sticky says
\* that the exact value lies above b * 2^e by less than 2^e
Round(b, e, sticky) ==
    IF BitLen(b) <= Precision THEN Canon(b, e)
    ELSE LET s == BitLen(b) - Precision
             kept == ShiftRight(b, s)
             below == sticky \/ \E j \in 0..(s - 2) : BitAt(b, j) = 1
             up == BitAt(b, s - 1) = 1 /\ (below \/ BitAt(b, s) = 1)
         IN Canon(IF up THEN Inc(kept) ELSE kept, e + s)

RECURSIVE DivRec(_, _)
\* quotient and remainder of b by the small divisor d
DivRec(b, d) ==
    IF b = <<>> THEN [q |-> <<>>, r |-> 0]
    ELSE LET hi == DivRec(Tail(b), d)
             v == hi.r * Base + Head(b)
         IN [q |-> <<v \div d>> \o hi.q, r |-> v % d]

RECURSIVE MulSmall(_, _, _)
\* b times the small natural k, plus carry
MulSmall(b, k, carry) ==
    IF b = <<>> THEN (IF carry = 0 THEN <<>> ELSE <<carry>>)
    ELSE LET v == Head(b) * k + carry
         IN <<v % Base>> \o MulSmall(Tail(b), k, v \div Base)

RECURSIVE SubLimbs(_, _, _)
\* a - b - borrow for a >= b + borrow
SubLimbs(a, b, borrow) ==
    IF a = <<>> THEN <<>>
    ELSE LET v == Head(a) - Limb(b, 1) - borrow
         IN <<(v + Base) % Base>> \o SubLimbs(Tail(a), IF b = <<>> THEN <<>> ELSE Tail(b),
                                              IF v < 0 THEN 1 ELSE 0)

\* the double of the natural n < Base
Exactly(n) == Canon(IF n = 0 THEN <<>> ELSE <<n>>, 0)

\* the double a JSON number with one decimal, n/10, parses to: n * 2^64 / 10
\* rounded
FromTenths(n) ==
    LET d == DivRec(<<0, 0, 0, 0, n>>, 10)
    IN Round(Strip(d.q), 0 - 4 * LimbBits, d.r # 0)

\* x1 - x0 for doubles x1 >= x0
Minus(x1, x0) ==
    LET e == IF x1.e < x0.e THEN x1.e ELSE x0.e
    IN Round(Strip(SubLimbs(ShiftLeft(x1.m, x1.e - e), ShiftLeft(x0.m, x0.e - e), 0)),
             e, FALSE)

\* x * k for a double x and a natural k (clientWidth, clientHeight)
Times(x, k) == Round(Strip(MulSmall(x.m, k, 0)), x.e, FALSE)

\* the coordinates a rect can carry, in tenths, and the layer sizes met
Tenths == 0..10
Lengths == {0, PageSize.w, PageSize.h}

Tenth == [n \in Tenths |-> FromTenths(n)]

\* x0 * w, y0 * hgt
Offset == [n \in Tenths, k \in Lengths |-> Times(Tenth[n], k)]

\* (x1 - x0) * w, (y1 - y0) * hgt
Extent == [a \in Tenths, b \in Tenths, k \in Lengths |->
              IF a <= b THEN Times(Minus(Tenth[b], Tenth[a]), k) ELSE Exactly(0)]

\* ------------------------------------------------------------ DOM helpers
Placeholder == [kind |-> "placeholder", owner |-> NoDoc, page |-> 0,
                w |-> 0, h |-> 0, rects |-> <<>>]

\* a .page div: its surface shows page `page` of `owner`; its .highlightLayer
\* has data-page = page, size w x h and child boxes rects
PageDiv(d, p, w, h) == [kind |-> "page", owner |-> d, page |-> p,
                        w |-> w, h |-> h, rects |-> <<>>]

\* a clearHighlights() that leaves every layer as it is
clearNothing(c) == c

\* clearHighlights(): every mounted .highlightLayer loses its children
clearHighlights(c) == [k \in DOMAIN c |-> [c[k] EXCEPT !.rects = <<>>]]

\* document.querySelector('.highlightLayer[data-page="p"]'): the first match
\* in document order, 0 when none is mounted
LayerFor(c, p) ==
    LET S == {k \in DOMAIN c : c[k].kind = "page" /\ c[k].page = p}
    IN IF S = {} THEN 0 ELSE CHOOSE k \in S : \A j \in S : k <= j

\* the .hl box of one normalized rect on a layer of the size read at draw time
Box(r, layer) == [rect |-> r,
                  left |-> Offset[r[1], layer.w],
                  top |-> Offset[r[2], layer.h],
                  width |-> Extent[r[1], r[3], layer.w],
                  height |-> Extent[r[2], r[4], layer.h]]

BoxesOf(rects, layer) == [j \in 1..Len(rects) |-> Box(rects[j], layer)]

RECURSIVE DrawEach(_, _)
\* res.highlights.forEach(...)
DrawEach(c, hls) ==
    IF hls = <<>> THEN c
    ELSE LET hl == Head(hls)
             k == LayerFor(c, hl.page)
             c1 == IF k = 0 THEN c
                   ELSE [c EXCEPT ![k].rects = @ \o BoxesOf(hl.rects, c[k])]
         IN DrawEach(c1, Tail(hls))

\* state.results.find(r => r.doc_id === docId): index, 0 when absent
FindResult(list, docId) ==
    LET S == {k \in DOMAIN list : list[k].doc_id = docId}
    IN IF S = {} THEN 0 ELSE CHOOSE k \in S : \A j \in S : k <= j

drawHighlightsForDoc(c, res, docId) ==
    LET cleared == clearHighlights(c)
    IN IF res.null THEN cleared
       ELSE LET k == FindResult(res.list, docId)
            IN IF k = 0 THEN cleared
               ELSE DrawEach(cleared, res.list[k].highlights)

\* ------------------------------------------------------------ vector engine
\* a module URL: origin "" for a path of this site (it starts with '/')
Url(origin, dir, file) == [origin |-> origin, dir |-> dir, file |-> file]
NoUrl == Url("", "", "")

VendorPath == Url("", "/vendor/", "pdf.mjs")
JsDelivr == Url("https://cdn.jsdelivr.net", "/npm/pdfjs-dist@4.6.82/build/", "pdf.mjs")
Unpkg == Url("https://unpkg.com", "/pdfjs-dist@4.6.82/build/", "pdf.mjs")
defaultPdfCdn == <<JsDelivr, Unpkg>>
LOCAL_PDF_WORKER == Url("", "/vendor/", "pdf.worker.min.mjs")

\* what the page's configuration and the browser's storage can hold:
\* pdf.vendorPath, pdf.enableCdn and localStorage['docchat:pdfCdn']
Configs == [vendorPath : {NoUrl, VendorPath},
            enableCdn : {"true", "false", "undefined", "yes"},
            pdfCdn : {"1", "0", "null", "true"}]

\* getStoredFlag(key) on the stored value val
getStoredFlag(val) == IF val = "1" THEN "true" ELSE IF val = "0" THEN "false" ELSE "null"

\* a reading of the opt-in in which the configured boolean beats the stored
\* preference
allowPdfCdnConfigFirst(cfg) ==
    IF cfg.enableCdn \in {"true", "false"} THEN cfg.enableCdn = "true"
    ELSE getStoredFlag(cfg.pdfCdn) = "true"

allowPdfCdn(cfg) ==
    LET stored == getStoredFlag(cfg.pdfCdn)
    IN IF stored # "null" THEN stored = "true"
       ELSE IF cfg.enableCdn \in {"true", "false"} THEN cfg.enableCdn = "true"
       ELSE FALSE

pdfUrls(cfg) ==
    (IF cfg.vendorPath # NoUrl THEN <<cfg.vendorPath>> ELSE <<>>)
    \o (IF allowPdfCdn(cfg) THEN defaultPdfCdn ELSE <<>>)

PDF_URLS == pdfUrls(config)
PDF_JS_ENABLED == Len(PDF_URLS) > 0

\* window.pdfjsLib: unset, an engine exposing GlobalWorkerOptions and
\* getDocument, or a module object that exposes neither
NoLib == "undefined"
Libs == {"engine", "module"}

\* url.startsWith('/') ? LOCAL_PDF_WORKER : url.replace('pdf.mjs', 'pdf.worker.min.mjs')
WorkerFor(url) ==
    IF url.origin = "" THEN LOCAL_PDF_WORKER
    ELSE IF url.file = "pdf.mjs" THEN [url EXCEPT !.file = "pdf.worker.min.mjs"]
    ELSE url

\* ------------------------------------------------------------ document list
\* the values of #docSearch the user types
Filters == {"", " Pay"}

\* e.target.value.trim().toLowerCase()
Normalize(v) == IF v = " Pay" THEN "pay" ELSE v

\* d.name.toLowerCase().includes(f)
NameIncludes(d, f) == f = "pay" /\ DocName(d) = "Payslip.pdf"

\* hitsCountFor(docId): total_hits of the results entry of docId, 0 without one
hitsCountFor(res, docId) ==
    IF res.null THEN 0
    ELSE LET S == {k \in DOMAIN res.list : res.list[k].doc_id = docId}
         IN IF S = {} THEN 0
            ELSE res.list[CHOOSE k \in S : \A j \in S : k <= j].total_hits

\* renderDocList(): one row per document of ds that passes the filter
renderDocList(ds, f, res) ==
    [d \in {x \in ds : f = "" \/ NameIncludes(x, f)} |-> hitsCountFor(res, d)]

\* ------------------------------------------------------------ status line
NoMatches == [text |-> "No matches", m |-> 0, n |-> 0, doc_name |-> "", p |-> 0]
MarkupStatus == [text |-> "markup", m |-> 0, n |-> 0, doc_name |-> "", p |-> 0]

\* "Match {navIndex+1} / {length} . {doc_name} p.{page+1}"
MatchText(ord, nav) == [text |-> "Match", m |-> nav + 1, n |-> Len(ord),
                        doc_name |-> ord[nav + 1].doc_name, p |-> ord[nav + 1].page + 1]

\* renderMatchesList(): one item per order entry, the one at navIndex outlined
MatchItems(ord, nav) == [k \in 1..Len(ord) |-> [item |-> ord[k], outlined |-> (k - 1 = nav)]]

\* updateHitStatus() throws a TypeError on cur.doc_name when state.order is
\* non-empty and state.order[state.navIndex] is undefined; nothing is written
updateHitStatusThrows(ord, nav) == Len(ord) > 0 /\ ~(nav >= 0 /\ nav < Len(ord))

\* an updateHitStatus() that forgets the controls when there is no match
updateHitStatusKeepsControls(ord, nav) ==
    IF Len(ord) = 0
    THEN /\ hitStatus' = NoMatches
         /\ UNCHANGED <<prevDisabled, nextDisabled>>
         /\ matchesList' = <<>>
         /\ emptyMatches' = TRUE
    ELSE IF updateHitStatusThrows(ord, nav)
    THEN UNCHANGED navDom
    ELSE /\ hitStatus' = MatchText(ord, nav)
         /\ prevDisabled' = (nav <= 0)
         /\ nextDisabled' = (nav >= Len(ord) - 1)
         /\ matchesList' = MatchItems(ord, nav)
         /\ emptyMatches' = FALSE

\* updateHitStatus(): the five DOM values it writes, unchanged when it throws
updateHitStatus(ord, nav) ==
    IF Len(ord) = 0
    THEN /\ hitStatus' = NoMatches
         /\ prevDisabled' = TRUE
         /\ nextDisabled' = TRUE
         /\ matchesList' = <<>>
         /\ emptyMatches' = TRUE
    ELSE IF updateHitStatusThrows(ord, nav)
    THEN UNCHANGED navDom
    ELSE /\ hitStatus' = MatchText(ord, nav)
         /\ prevDisabled' = (nav <= 0)
         /\ nextDisabled' = (nav >= Len(ord) - 1)
         /\ matchesList' = MatchItems(ord, nav)
         /\ emptyMatches' = FALSE

\* ------------------------------------------------------------ draft generator
NoGenerator == "null"

\* what the page's configuration and the browser's storage can hold:
\* transformers.vendorPath, transformers.enableCdn, localStorage['docchat:transformersCdn']
TransformersConfigs == [vendorPath : {NoUrl, Url("", "/vendor/", "transformers.min.js")},
                        enableCdn : {"true", "false", "undefined"}]
TransformersPrefs == {"1", "0", "null"}
NoTransformers == [vendorPath |-> NoUrl, enableCdn |-> "undefined"]

builtInTransformerCdn ==
    <<Url("https://cdn.jsdelivr.net", "/npm/@xenova/transformers@3.0.0/dist/", "transformers.min.js"),
      Url("https://cdn.jsdelivr.net", "/npm/@xenova/transformers@2.14.0/dist/", "transformers.min.js"),
      Url("https://unpkg.com", "/@xenova/transformers@3.0.0/dist/", "transformers.min.js?module"),
      Url("https://unpkg.com", "/@xenova/transformers@2.14.0/dist/", "transformers.min.js?module")>>

\* readStoredFlag(key) on the stored value val
readStoredFlag(val) == getStoredFlag(val)

initialTransformersCdn(cfg, pref) ==
    IF readStoredFlag(pref) # "null" THEN readStoredFlag(pref) = "true"
    ELSE IF cfg.enableCdn \in {"true", "false"} THEN cfg.enableCdn = "true"
    ELSE FALSE

\* a source list that holds the remote sources whatever the flag
computeTransformerUrlsAlways(cdn) ==
    (IF transformersConfig.vendorPath # NoUrl THEN <<transformersConfig.vendorPath>> ELSE <<>>)
    \o builtInTransformerCdn

\* computeTransformerUrls() when useTransformersCdn is cdn
computeTransformerUrls(cdn) ==
    (IF transformersConfig.vendorPath # NoUrl THEN <<transformersConfig.vendorPath>> ELSE <<>>)
    \o (IF cdn THEN builtInTransformerCdn ELSE <<>>)

\* llm.js has been evaluated under a configuration of cfgs and a stored
\* preference of prefs
LlmLoaded(cfgs, prefs) ==
    /\ generator = NoGenerator
    /\ status = "idle"
    /\ ready = FALSE
    /\ transformersConfig \in cfgs
    /\ transformersPref \in prefs
    /\ useTransformersCdn = initialTransformersCdn(transformersConfig, transformersPref)

NoSnapshot == <<>>

\* ------------------------------------------------------------ tasks
Tasks == 1..Len(tasks)
CanStart == Len(tasks) < MaxTasks

\* the user starts one more handler
UserCall == calls < MaxCalls /\ calls' = calls + 1
Without(t) == [k \in 1..(Len(tasks) - 1) |-> IF k < t THEN tasks[k] ELSE tasks[k + 1]]

\* the configurations without a stored preference or a configured opt-in
PlainConfigs == {cfg \in Configs : cfg.enableCdn = "undefined" /\ cfg.pdfCdn = "null"}

\* the page has loaded under a configuration of cfgs with window.pdfjsLib
\* one of libs, and fetchDocs() is in flight
InitWith(cfgs, libs) ==
    /\ docs = {}
    /\ currentDocId = NoDoc
    /\ results = NullResults
    /\ order = <<>>
    /\ navIndex = -1
    /\ filter = ""
    /\ docList = renderDocList({}, "", NullResults)
    /\ container = <<Placeholder>>
    /\ hitStatus = MarkupStatus
    /\ prevDisabled \in BOOLEAN
    /\ nextDisabled \in BOOLEAN
    /\ matchesList = <<>>
    /\ emptyMatches = TRUE
    /\ config \in cfgs
    /\ pdfjsLib \in libs
    /\ workerSrc = NoUrl
    /\ serverDocs = Docs
    /\ tasks = <<Task("boot", "boot", NoDoc, NoEntry, 0)>>
    /\ calls = 0
    /\ newest = NoQuery
    /\ started = NoSnapshot
    /\ LlmLoaded({NoTransformers}, {"null"})
    /\ last = Other

\* no engine is preloaded
Init == InitWith(PlainConfigs, {NoLib})

\* ------------------------------------------------------------ opening
\* renderPDFjs(url) up to its first await: the container is emptied, then
\* window.pdfjsLib.getDocument is called, which throws a TypeError on a module
\* without it
renderPDFjsStart(lib) == IF lib = "engine" THEN "getDocument" ELSE "throws"

\* tryRender(docId) up to its first await that leaves the microtask queue:
\* ensurePdfJsReady() answers at once unless it has a source to import; both
\* renderers empty the container before they await
tryRenderStart(c) ==
    IF ~PDF_JS_ENABLED THEN [container |-> <<>>, pc |-> "manifest", i |-> 0]
    ELSE IF pdfjsLib # NoLib
    THEN [container |-> <<>>, pc |-> renderPDFjsStart(pdfjsLib), i |-> 0]
    ELSE [container |-> c, pc |-> "import", i |-> 1]

\* the rest of openDoc after tryRender, and of the goToHit awaiting it:
\* task t has rendered into c
OpenFinish(t, c) ==
    LET c1 == drawHighlightsForDoc(c, results, tasks[t].doc)
    IN /\ tasks' = Without(t)
       /\ newest' = IF tasks[t].new THEN [newest EXCEPT !.done = TRUE] ELSE newest
       /\ IF tasks[t].tgt = NoEntry
          THEN /\ container' = c1
               /\ UNCHANGED navDom
          ELSE /\ container' = drawHighlightsForDoc(c1, results, tasks[t].tgt.doc_id)
               /\ updateHitStatus(order, navIndex)

EndsGoToHit(t) == tasks[t].tgt # NoEntry

\* openDoc(docId), from the document list
OpenDocCall(d) ==
    /\ UserCall
    /\ UNCHANGED newest
    /\ d \in docs
    /\ CanStart
    /\ LET s == tryRenderStart(container)
       IN /\ currentDocId' = d
          /\ container' = s.container
          /\ tasks' = IF s.pc = "throws" THEN tasks
                      ELSE Append(tasks, [Task(s.pc, "openDoc", d, NoEntry, 0) EXCEPT !.i = s.i])
    /\ docList' = renderDocList(docs, filter, results)
    /\ last' = Other
    /\ UNCHANGED <<docs, results, order, navIndex, filter, navDom, envVars>>

\* task t goes on after ensurePdfJsReady() has returned lib: tryRender starts
\* the vector renderer on an engine, the raster renderer on null
AfterEnsure(t, lib) ==
    LET pc == IF lib = NoLib THEN "manifest" ELSE renderPDFjsStart(lib)
    IN /\ container' = <<>>
       /\ tasks' = IF pc = "throws" THEN Without(t)
                   ELSE [tasks EXCEPT ![t].pc = pc, ![t].i = 0]

\* what import(url) can do: resolve to the engine, resolve to a module
\* without the engine's entry points, or reject
Outcomes == {"engine", "module", "rejects"}

\* ensurePdfJsReady() of task t after import(PDF_URLS[i]) has settled
ImportResp(t, outcome) ==
    /\ UNCHANGED <<calls, newest>>
    /\ tasks[t].pc = "import"
    /\ LET i == tasks[t].i
       IN /\ IF outcome = "rejects"
             THEN /\ UNCHANGED <<pdfjsLib, workerSrc>>
                  /\ IF i < Len(PDF_URLS)
                     THEN /\ tasks' = [tasks EXCEPT ![t].i = i + 1]
                          /\ UNCHANGED container
                     ELSE IF pdfjsLib # NoLib
                     THEN AfterEnsure(t, pdfjsLib)
                     ELSE /\ tasks' = [tasks EXCEPT ![t].pc = "poll", ![t].i = 0]
                          /\ UNCHANGED container
             ELSE /\ workerSrc' = IF outcome = "engine" THEN WorkerFor(PDF_URLS[i])
                                  ELSE workerSrc
                  /\ pdfjsLib' = outcome
                  /\ AfterEnsure(t, outcome)
          /\ last' = Last("import", outcome, i, FALSE)
    /\ UNCHANGED <<stateVars, navDom, listVars, config, serverDocs>>

\* ensurePdfJsReady() of task t after its polling loop: up to 30 waits of
\* 100 ms, ended by window.pdfjsLib being set or by the last wait
PollDone(t) ==
    /\ UNCHANGED <<calls, newest>>
    /\ tasks[t].pc = "poll"
    /\ AfterEnsure(t, pdfjsLib)
    /\ last' = Last("poll", pdfjsLib, 0, FALSE)
    /\ UNCHANGED <<stateVars, navDom, listVars, envVars>>

\* the manifest of a document the store no longer holds lists no pages
ManifestPages(d) == IF d \in serverDocs THEN PagesOf(d) ELSE 0

\* a page whose layer has its size when it is mounted
RasterPageSized(d, p) == PageDiv(d, p, PageSize.w, PageSize.h)

\* the pageDiv of renderImages: an image and a layer without a size
RasterPage(d, p) == PageDiv(d, p, 0, 0)

\* renderImages after the manifest: every page is mounted with an unsized layer
ManifestResp(t) ==
    /\ UNCHANGED calls
    /\ tasks[t].pc = "manifest"
    /\ LET d == tasks[t].doc
           n == ManifestPages(d)
           c == container \o [k \in 1..n |-> RasterPage(d, k - 1)]
       IN OpenFinish(t, c)
    /\ last' = Last("manifest", tasks[t].doc, Len(container), EndsGoToHit(t))
    /\ UNCHANGED <<stateVars, listVars, envVars>>

\* img.onload of a mounted page: its layer takes the image's size
ImgLoad(k) ==
    /\ UNCHANGED <<calls, newest>>
    /\ container[k].kind = "page"
    /\ container[k].w = 0
    /\ container[k].owner \in serverDocs
    /\ container' = [container EXCEPT ![k].w = PageSize.w, ![k].h = PageSize.h]
    /\ last' = Last("imgLoad", container[k].owner, k, FALSE)
    /\ UNCHANGED <<stateVars, navDom, envVars, tasks, listVars>>

\* renderPDFjs after loadingTask.promise
GetDocumentResp(t) ==
    /\ UNCHANGED calls
    /\ tasks[t].pc = "getDocument"
    /\ tasks[t].doc \in serverDocs
    /\ IF PagesOf(tasks[t].doc) >= 1
       THEN /\ tasks' = [tasks EXCEPT ![t].pc = "getPage", ![t].i = 1]
            /\ last' = Other
            /\ UNCHANGED <<domVars, newest>>
       ELSE /\ OpenFinish(t, container)
            /\ last' = [Other EXCEPT !.ended = EndsGoToHit(t)]
    /\ UNCHANGED <<stateVars, listVars, envVars>>

\* a viewport whose size is not known yet
NoViewport == [w |-> 0, h |-> 0]

\* page.getViewport({ scale: 1.15 })
Viewport == PageSize

\* renderPDFjs after pdf.getPage(i): the page and its sized layer are mounted
GetPageResp(t) ==
    /\ UNCHANGED <<calls, newest>>
    /\ tasks[t].pc = "getPage"
    /\ container' = Append(container,
                           PageDiv(tasks[t].doc, tasks[t].i - 1, Viewport.w, Viewport.h))
    /\ tasks' = [tasks EXCEPT ![t].pc = "render"]
    /\ last' = Other
    /\ UNCHANGED <<stateVars, navDom, envVars, listVars>>

\* renderPDFjs after page.render(...).promise
RenderDone(t) ==
    /\ UNCHANGED calls
    /\ tasks[t].pc = "render"
    /\ IF tasks[t].i + 1 <= PagesOf(tasks[t].doc)
       THEN /\ tasks' = [tasks EXCEPT ![t].pc = "getPage", ![t].i = @ + 1]
            /\ last' = Other
            /\ UNCHANGED <<domVars, newest>>
       ELSE /\ OpenFinish(t, container)
            /\ last' = [Other EXCEPT !.ended = EndsGoToHit(t)]
    /\ UNCHANGED <<stateVars, listVars, envVars>>

\* ------------------------------------------------------------ navigation
\* a clamp that wraps to the other end instead of stopping at the boundary
ClampWraps(idx, n) == IF idx < 0 THEN n - 1 ELSE IF idx >= n THEN 0 ELSE idx

\* if(idx < 0) idx = 0; if(idx >= state.order.length) idx = length - 1
Clamp(idx, n) == IF idx < 0 THEN 0 ELSE IF idx >= n THEN n - 1 ELSE idx

\* goToHit(idx) on a non-empty order ord with results res and document list
\* rows dl; t is the task that calls it (sendChat), 0 when a click does
goToHit(t, idx, ord, res, dl) ==
    LET i == Clamp(idx, Len(ord))
        target == ord[i + 1]
    IN /\ navIndex' = i
       /\ IF currentDocId # target.doc_id
          THEN LET s == tryRenderStart(container)
                   task == [Task(s.pc, IF t = 0 THEN "goToHit" ELSE "sendChat",
                                 target.doc_id, target, 0)
                               EXCEPT !.i = s.i,
                                      !.new = IF t = 0 THEN FALSE ELSE tasks[t].new]
               IN /\ currentDocId' = target.doc_id
                  /\ docList' = renderDocList(docs, filter, res)
                  /\ container' = s.container
                  /\ tasks' = IF s.pc = "throws"
                              THEN (IF t = 0 THEN tasks ELSE Without(t))
                              ELSE IF t = 0 THEN Append(tasks, task)
                              ELSE [tasks EXCEPT ![t] = task]
                  /\ UNCHANGED navDom
          ELSE /\ container' = drawHighlightsForDoc(container, res, target.doc_id)
               /\ updateHitStatus(ord, i)
               /\ tasks' = IF t = 0 THEN tasks ELSE Without(t)
               /\ docList' = dl
               /\ UNCHANGED currentDocId

\* a call of goToHit(idx) from a click
GoToHitCall(idx) ==
    /\ UserCall
    /\ UNCHANGED newest
    /\ IF Len(order) = 0
       THEN /\ last' = Last("goToHit", NoDoc, idx, TRUE)
            /\ UNCHANGED <<navIndex, currentDocId, docList, domVars, tasks>>
       ELSE LET target == order[Clamp(idx, Len(order)) + 1]
                suspends == currentDocId # target.doc_id
            IN /\ suspends => CanStart
               /\ goToHit(0, idx, order, results, docList)
               /\ last' = Last("goToHit", NoDoc, idx, ~suspends)
    /\ UNCHANGED <<docs, results, order, filter, envVars>>

\* #prevHit click
PrevClick == ~prevDisabled /\ GoToHitCall(navIndex - 1)

\* #nextHit click
NextClick == ~nextDisabled /\ GoToHitCall(navIndex + 1)

\* click on item k of #matchesList
MatchClick(k) == k \in DOMAIN matchesList /\ GoToHitCall(k - 1)

\* ------------------------------------------------------------ chat
ChatInputs == {"", " ", "income"}

\* a trim that keeps whitespace
TrimNone(q) == q

\* input.value.trim()
Trim(q) == IF q = " " THEN "" ELSE q

SendChatCall(q) ==
    /\ UserCall
    /\ IF Trim(q) = ""
       THEN UNCHANGED <<tasks, newest>>
       ELSE /\ CanStart
            /\ tasks' = Append([k \in DOMAIN tasks |-> [tasks[k] EXCEPT !.new = FALSE]],
                               [Task("chat", "sendChat", NoDoc, NoEntry, 0) EXCEPT !.new = TRUE])
            /\ newest' = NoQuery
    /\ last' = Last("sendChat", q, 0, FALSE)
    /\ UNCHANGED <<stateVars, listVars, domVars, envVars>>

\* sendChat after the response {intent, results: res, order: ord} has been
\* parsed
ChatRespWith(t, ord, res) ==
    /\ UNCHANGED calls
    /\ tasks[t].pc = "chat"
    /\ results' = ListResults(res)
    /\ order' = ord
    /\ IF Len(ord) > 0
       THEN /\ goToHit(t, 0, ord, results', renderDocList(docs, filter, results'))
            /\ last' = Last("chatResp", NoDoc, Len(ord), Len(tasks') < Len(tasks))
       ELSE /\ navIndex' = 0
            /\ container' = clearHighlights(container)
            /\ updateHitStatus(ord, 0)
            /\ tasks' = Without(t)
            /\ docList' = renderDocList(docs, filter, results')
            /\ last' = Last("chatResp", NoDoc, 0, FALSE)
            /\ UNCHANGED currentDocId
    /\ newest' = IF tasks[t].new
                  THEN [done |-> Len(tasks') < Len(tasks), rects |-> RectsOfResults(res)]
                  ELSE newest
    /\ UNCHANGED <<docs, filter, envVars>>

\* the response of the search engine to a query matching ord
ChatResp(t, ord) == ChatRespWith(t, ord, ResultsOf(ord))

\* a clearResults that forgets the cursor
clearResultsKeepsCursor ==
    /\ UserCall
    /\ UNCHANGED newest
    /\ results' = NullResults
    /\ order' = <<>>
    /\ UNCHANGED navIndex
    /\ container' = clearHighlights(container)
    /\ updateHitStatus(<<>>, -1)
    /\ last' = Last("clearResults", NoDoc, Len(order), FALSE)
    /\ UNCHANGED <<docs, currentDocId, listVars, envVars, tasks>>

clearResults ==
    /\ UserCall
    /\ UNCHANGED newest
    /\ results' = NullResults
    /\ order' = <<>>
    /\ navIndex' = -1
    /\ container' = clearHighlights(container)
    /\ updateHitStatus(<<>>, -1)
    /\ last' = Last("clearResults", NoDoc, Len(order), FALSE)
    /\ UNCHANGED <<docs, currentDocId, listVars, envVars, tasks>>

\* ------------------------------------------------------------ registry
\* fetchDocs() at DOMContentLoaded, after the list has been parsed
BootResp(t) ==
    /\ UNCHANGED <<calls, newest>>
    /\ tasks[t].pc = "boot"
    /\ docs' = serverDocs
    /\ docList' = renderDocList(docs', filter, results)
    /\ tasks' = Without(t)
    /\ last' = Other
    /\ UNCHANGED <<currentDocId, results, order, navIndex, filter, domVars, envVars>>

\* input on #docSearch
FilterInput(v) ==
    /\ UserCall
    /\ filter' = Normalize(v)
    /\ docList' = renderDocList(docs, filter', results)
    /\ last' = Other
    /\ UNCHANGED <<docs, currentDocId, results, order, navIndex, domVars, envVars,
                   tasks, newest>>

\* a removal of the first entry of docId only (splice at indexOf)
FilterOutFirst(s, docId) ==
    LET S == {k \in DOMAIN s : s[k].doc_id = docId}
    IN IF S = {} THEN s
       ELSE LET f == CHOOSE k \in S : \A j \in S : k <= j
            IN [k \in 1..(Len(s) - 1) |-> IF k < f THEN s[k] ELSE s[k + 1]]

\* state.results.filter(r => r.doc_id !== docId), state.order.filter(...)
FilterOut(s, docId) == SelectSeq(s, LAMBDA x : x.doc_id # docId)

\* a test of the answer that takes every answer for a success
AnyAnswer(deleted) == TRUE

\* data.deleted
Deleted(deleted) == deleted

DeleteCall(d) ==
    /\ UserCall
    /\ UNCHANGED newest
    /\ d \in docs
    /\ CanStart
    /\ tasks' = Append(tasks, Task("delete", "deleteDoc", d, NoEntry, 0))
    /\ last' = Other
    /\ UNCHANGED <<stateVars, listVars, domVars, envVars>>

\* deleteDoc after {deleted} has been parsed, up to its await of fetchDocs();
\* the task keeps in i whether the deleted document was the open one
DeleteResp(t, deleted) ==
    /\ UNCHANGED <<calls, newest>>
    /\ tasks[t].pc = "delete"
    /\ deleted => tasks[t].doc \in serverDocs
    /\ serverDocs' = IF deleted THEN serverDocs \ {tasks[t].doc} ELSE serverDocs
    /\ LET d == tasks[t].doc
       IN IF ~Deleted(deleted)
          THEN /\ tasks' = Without(t)
               /\ UNCHANGED <<results, order, currentDocId, container>>
          ELSE /\ results' = IF results.null THEN results
                             ELSE ListResults(FilterOut(results.list, d))
               /\ order' = FilterOut(order, d)
               /\ IF currentDocId = d
                  THEN /\ currentDocId' = NoDoc
                       /\ container' = <<Placeholder>>
                  ELSE UNCHANGED <<currentDocId, container>>
               /\ tasks' = [tasks EXCEPT ![t].pc = "delList",
                                         ![t].i = IF currentDocId = d THEN 1 ELSE 0]
    /\ UNCHANGED <<docs, navIndex, navDom, config, pdfjsLib, workerSrc, listVars>>
    /\ last' = Last("deleteResp", tasks[t].doc,
                    IF deleted THEN 1 + Len(order) - Len(order') ELSE 0, FALSE)

\* deleteDoc after fetchDocs() has returned
DeleteListResp(t) ==
    /\ UNCHANGED <<calls, newest>>
    /\ tasks[t].pc = "delList"
    /\ docs' = serverDocs
    /\ docList' = renderDocList(docs', filter, results)
    /\ updateHitStatus(order, navIndex)
    /\ tasks' = Without(t)
    /\ last' = Last("deleteDone", tasks[t].doc, tasks[t].i, FALSE)
    /\ UNCHANGED <<currentDocId, results, order, navIndex, filter, container, envVars>>

\* a request of task t rejects (network or parse failure): the rejection is
\* not caught, the handler never resumes
FailablePcs == {"boot", "chat", "manifest", "getDocument", "delete", "delList"}

RequestFails(t) ==
    /\ UNCHANGED <<calls, newest>>
    /\ tasks[t].pc \in FailablePcs
    /\ tasks' = Without(t)
    /\ last' = Last("fails", tasks[t].pc, 0, FALSE)
    /\ UNCHANGED <<stateVars, listVars, domVars, envVars>>

Next ==
    \/ \E t \in Tasks : BootResp(t) /\ UNCHANGED <<started, llmVars>>
    \/ \E q \in ChatInputs : SendChatCall(q) /\ UNCHANGED <<started, llmVars>>
    \/ \E t \in Tasks : \E ord \in OrdersOver(serverDocs) : ChatResp(t, ord) /\ UNCHANGED <<started, llmVars>>
    \/ PrevClick /\ UNCHANGED <<started, llmVars>>
    \/ NextClick /\ UNCHANGED <<started, llmVars>>
    \/ \E k \in DOMAIN matchesList : MatchClick(k) /\ UNCHANGED <<started, llmVars>>
    \/ \E d \in Docs : OpenDocCall(d) /\ UNCHANGED <<started, llmVars>>
    \/ \E t \in Tasks : \E outcome \in Outcomes : ImportResp(t, outcome) /\ UNCHANGED <<started, llmVars>>
    \/ \E t \in Tasks : PollDone(t) /\ UNCHANGED <<started, llmVars>>
    \/ \E t \in Tasks : ManifestResp(t) /\ UNCHANGED <<started, llmVars>>
    \/ \E k \in DOMAIN container : ImgLoad(k) /\ UNCHANGED <<started, llmVars>>
    \/ \E t \in Tasks : GetDocumentResp(t) /\ UNCHANGED <<started, llmVars>>
    \/ \E t \in Tasks : GetPageResp(t) /\ UNCHANGED <<started, llmVars>>
    \/ \E t \in Tasks : RenderDone(t) /\ UNCHANGED <<started, llmVars>>
    \/ \E d \in Docs : DeleteCall(d) /\ UNCHANGED <<started, llmVars>>
    \/ \E t \in Tasks : \E deleted \in BOOLEAN : DeleteResp(t, deleted) /\ UNCHANGED <<started, llmVars>>
    \/ \E t \in Tasks : DeleteListResp(t) /\ UNCHANGED <<started, llmVars>>
    \/ clearResults /\ UNCHANGED <<started, llmVars>>
    \/ \E v \in Filters : FilterInput(v) /\ UNCHANGED <<started, llmVars>>

\* every request is answered
Spec == Init /\ [][Next]_vars

\* ------------------------------------------------------------ backend selection
\* any configuration, an engine possibly preloaded by the page
InitEngine == InitWith(Configs, {NoLib, "engine"})

\* documents are opened, nothing is searched or deleted
NextEngine ==
    \/ \E t \in Tasks : BootResp(t) /\ UNCHANGED <<started, llmVars>>
    \/ \E d \in Docs : OpenDocCall(d) /\ UNCHANGED <<started, llmVars>>
    \/ \E t \in Tasks : \E outcome \in Outcomes : ImportResp(t, outcome) /\ UNCHANGED <<started, llmVars>>
    \/ \E t \in Tasks : PollDone(t) /\ UNCHANGED <<started, llmVars>>
    \/ \E t \in Tasks : ManifestResp(t) /\ UNCHANGED <<started, llmVars>>
    \/ \E k \in DOMAIN container : ImgLoad(k) /\ UNCHANGED <<started, llmVars>>
    \/ \E t \in Tasks : GetDocumentResp(t) /\ UNCHANGED <<started, llmVars>>
    \/ \E t \in Tasks : GetPageResp(t) /\ UNCHANGED <<started, llmVars>>
    \/ \E t \in Tasks : RenderDone(t) /\ UNCHANGED <<started, llmVars>>

SpecEngine == InitEngine /\ [][NextEngine]_vars

\* ------------------------------------------------------------ drafting
\* an invocation suspended in init(): called by from, through the urls it
\* computed when it started, at import(urls[i]) or at pipeline(...)
LlmTask(pc, from, force, urls, i) ==
    [pc |-> pc, from |-> from, force |-> force, urls |-> urls, i |-> i]

LoadPcs == {"llmImport", "pipeline"}
TemplateStatus == {"template (no sources)", "template (CDN disabled)", "template (load failed)"}

\* init(): if (!force && (ready || status === 'loading')) return
Loading(force, rdy, st) == ~force /\ (rdy \/ st = "loading")

\* init(opts) up to its first await, from generator gen, ready rdy, status st
\* and useTransformersCdn cdn: what it leaves in the three variables, the
\* urls it goes on to load (none when it has returned)
initSync(force, gen, rdy, st, cdn) ==
    LET urls == computeTransformerUrls(cdn)
    IN IF Loading(force, rdy, st)
       THEN [generator |-> gen, ready |-> rdy, status |-> st, urls |-> <<>>]
       ELSE IF urls = <<>>
       THEN [generator |-> NoGenerator, ready |-> TRUE, urls |-> <<>>,
             status |-> IF cdn THEN "template (no sources)" ELSE "template (CDN disabled)"]
       ELSE [generator |-> gen, ready |-> FALSE, status |-> "loading", urls |-> urls]

\* a generateDraft that lets a failure of the generator or of the parse out
parseDraftUncaught(out) ==
    IF out = "draft" THEN "model"
    ELSE IF out \in {"throws", "text"} THEN "rejects" ELSE "template"

\* what the generator call can give: it throws, or its text is no JSON, JSON
\* without subject and body, or a draft
Outputs == {"throws", "text", "partial", "draft"}

\* generateDraft from the generator call on: the parsed draft, or
\* fallbackDraft(params) on any failure
parseDraft(out) == IF out = "draft" THEN "model" ELSE "template"

\* generateDraft after its await of init(): it returns fallbackDraft(params)
\* or calls the generator
Drafting(t, gen, rdy, st) ==
    IF ~rdy \/ gen = NoGenerator \/ st # "ready"
    THEN /\ tasks' = (IF t = 0 THEN tasks ELSE Without(t))
         /\ last' = Last("draft", "template", 0, FALSE)
    ELSE /\ tasks' = (IF t = 0 THEN Append(tasks, LlmTask("generate", "generateDraft", FALSE, <<>>, 0))
                      ELSE [tasks EXCEPT ![t].pc = "generate"])
         /\ last' = Last("generateDraft", "generate", 0, FALSE)

\* the caller of init() goes on after the load of task t has returned; an
\* enableCdn() that found the flag on is called "enableCdnAgain"
Returned(t, gen, rdy, st) ==
    IF tasks[t].from = "generateDraft" THEN Drafting(t, gen, rdy, st)
    ELSE /\ tasks' = Without(t)
         /\ last' = Last(IF tasks[t].from = "init" THEN "initDone" ELSE "enableDone",
                         st, IF tasks[t].from = "enableCdn" THEN 1 ELSE 0, FALSE)

\* init(opts) called through window.DocChaseLLM
InitCall(force) ==
    /\ UserCall
    /\ CanStart
    /\ LET r == initSync(force, generator, ready, status, useTransformersCdn)
       IN /\ generator' = r.generator
          /\ ready' = r.ready
          /\ status' = r.status
          /\ tasks' = IF r.urls = <<>> THEN tasks
                      ELSE Append(tasks, LlmTask("llmImport", "init", force, r.urls, 1))
    /\ last' = Last("init", "call", IF force THEN 1 ELSE 0, FALSE)
    /\ UNCHANGED <<useTransformersCdn, transformersPref, transformersConfig>>

\* generateDraft(params) up to its first await that leaves the microtask queue
GenerateDraftCall ==
    /\ UserCall
    /\ CanStart
    /\ IF ~ready \/ generator = NoGenerator
       THEN LET r == initSync(FALSE, generator, ready, status, useTransformersCdn)
            IN /\ generator' = r.generator
               /\ ready' = r.ready
               /\ status' = r.status
               /\ IF r.urls = <<>>
                  THEN Drafting(0, r.generator, r.ready, r.status)
                  ELSE /\ tasks' = Append(tasks, LlmTask("llmImport", "generateDraft", FALSE, r.urls, 1))
                       /\ last' = Last("generateDraft", "loads", 0, FALSE)
       ELSE /\ Drafting(0, generator, ready, status)
            /\ UNCHANGED <<generator, ready, status>>
    /\ UNCHANGED <<useTransformersCdn, transformersPref, transformersConfig>>

\* the load of task t gives up urls[i]: the next url, or the template
NextUrl(t) ==
    IF tasks[t].i < Len(tasks[t].urls)
    THEN /\ tasks' = [tasks EXCEPT ![t].pc = "llmImport", ![t].i = @ + 1]
         /\ last' = Last("load", "next", tasks[t].i, FALSE)
         /\ UNCHANGED <<generator, ready, status>>
    ELSE LET st == IF useTransformersCdn THEN "template (load failed)"
                   ELSE "template (CDN disabled)"
         IN /\ generator' = NoGenerator
            /\ ready' = TRUE
            /\ status' = st
            /\ Returned(t, NoGenerator, TRUE, st)

\* init() of task t after import(url) has settled
LlmImportResp(t, resolved) ==
    /\ tasks[t].pc = "llmImport"
    /\ IF resolved
       THEN /\ tasks' = [tasks EXCEPT ![t].pc = "pipeline"]
            /\ last' = Last("load", "pipeline", tasks[t].i, FALSE)
            /\ UNCHANGED <<generator, ready, status>>
       ELSE NextUrl(t)
    /\ UNCHANGED <<calls, useTransformersCdn, transformersPref, transformersConfig>>

\* progress_callback of the pipeline of task t, with totalBytes
Progress(t) ==
    /\ tasks[t].pc = "pipeline"
    /\ status' = "loading 50%"
    /\ last' = Last("progress", status, 0, FALSE)
    /\ UNCHANGED <<calls, tasks, generator, ready, useTransformersCdn, transformersPref,
                   transformersConfig>>

\* init() of task t after pipeline(...) has settled
PipelineResp(t, resolved) ==
    /\ tasks[t].pc = "pipeline"
    /\ IF resolved
       THEN /\ generator' = "generator"
            /\ ready' = TRUE
            /\ status' = "ready"
            /\ Returned(t, "generator", TRUE, "ready")
       ELSE NextUrl(t)
    /\ UNCHANGED <<calls, useTransformersCdn, transformersPref, transformersConfig>>

\* generateDraft of task t after the generator call has settled with out
GenerateResp(t, out) ==
    /\ tasks[t].pc = "generate"
    /\ tasks' = Without(t)
    /\ last' = Last("draft", parseDraft(out), IF out = "draft" THEN 1 ELSE 0, TRUE)
    /\ UNCHANGED <<calls, llmVars>>

\* enableCdn()
EnableCdnCall ==
    /\ UserCall
    /\ CanStart
    /\ IF useTransformersCdn
       THEN /\ IF ~ready \/ generator = NoGenerator
               THEN LET r == initSync(TRUE, generator, ready, status, TRUE)
                    IN /\ generator' = r.generator
                       /\ ready' = r.ready
                       /\ status' = r.status
                       /\ tasks' = Append(tasks, LlmTask("llmImport", "enableCdnAgain", TRUE, r.urls, 1))
               ELSE UNCHANGED <<generator, ready, status, tasks>>
            /\ last' = Last("enableCdn", "on", 0, FALSE)
            /\ UNCHANGED <<useTransformersCdn, transformersPref>>
       ELSE LET r == initSync(TRUE, NoGenerator, FALSE, "idle", TRUE)
            IN /\ useTransformersCdn' = TRUE
               /\ transformersPref' = "1"
               /\ generator' = r.generator
               /\ ready' = r.ready
               /\ status' = r.status
               /\ tasks' = Append(tasks, LlmTask("llmImport", "enableCdn", TRUE, r.urls, 1))
               /\ last' = Last("enableCdn", "off", 0, FALSE)
    /\ UNCHANGED transformersConfig

\* llm.js has been evaluated, its last statement init() included; the page
\* is as it was loaded
InitLlm ==
    /\ \E cfg \in TransformersConfigs, pref \in TransformersPrefs :
         LET cdn == initialTransformersCdn(cfg, pref)
             vendor == IF cfg.vendorPath # NoUrl THEN <<cfg.vendorPath>> ELSE <<>>
             urls == vendor \o (IF cdn THEN builtInTransformerCdn ELSE <<>>)
         IN /\ transformersConfig = cfg
            /\ transformersPref = pref
            /\ useTransformersCdn = cdn
            /\ generator = NoGenerator
            /\ ready = (urls = <<>>)
            /\ status = IF urls = <<>> THEN "template (CDN disabled)" ELSE "loading"
            /\ tasks = IF urls = <<>> THEN <<>>
                       ELSE <<LlmTask("llmImport", "init", FALSE, urls, 1)>>
    /\ docs = {}
    /\ currentDocId = NoDoc
    /\ results = NullResults
    /\ order = <<>>
    /\ navIndex = -1
    /\ filter = ""
    /\ docList = renderDocList({}, "", NullResults)
    /\ container = <<Placeholder>>
    /\ hitStatus = MarkupStatus
    /\ prevDisabled = TRUE
    /\ nextDisabled = TRUE
    /\ matchesList = <<>>
    /\ emptyMatches = TRUE
    /\ config = [vendorPath |-> NoUrl, enableCdn |-> "undefined", pdfCdn |-> "null"]
    /\ pdfjsLib = NoLib
    /\ workerSrc = NoUrl
    /\ serverDocs = Docs
    /\ calls = 0
    /\ newest = NoQuery
    /\ started = NoSnapshot
    /\ last = Other

NextLlm ==
    \/ \E force \in BOOLEAN : InitCall(force) /\ UNCHANGED <<appVars, started>>
    \/ GenerateDraftCall /\ UNCHANGED <<appVars, started>>
    \/ EnableCdnCall /\ UNCHANGED <<appVars, started>>
    \/ \E t \in Tasks : \E resolved \in BOOLEAN : LlmImportResp(t, resolved) /\ UNCHANGED <<appVars, started>>
    \/ \E t \in Tasks : Progress(t) /\ UNCHANGED <<appVars, started>>
    \/ \E t \in Tasks : \E resolved \in BOOLEAN : PipelineResp(t, resolved) /\ UNCHANGED <<appVars, started>>
    \/ \E t \in Tasks : \E out \in Outputs : GenerateResp(t, out) /\ UNCHANGED <<appVars, started>>

SpecLlm == InitLlm /\ [][NextLlm]_vars

\* ------------------------------------------------------------ failing requests
\* the user calls an operation when none is in flight; the module state at
\* the call is kept
Called == Len(tasks) = 0 /\ started' = stateVars

\* one operation at a time, and a request may fail
NextFail ==
    \/ \E t \in Tasks : BootResp(t) /\ UNCHANGED <<started, llmVars>>
    \/ \E q \in ChatInputs : SendChatCall(q) /\ Called /\ UNCHANGED llmVars
    \/ \E t \in Tasks : \E ord \in OrdersOver(serverDocs) : ChatResp(t, ord) /\ UNCHANGED <<started, llmVars>>
    \/ NextClick /\ Called /\ UNCHANGED llmVars
    \/ \E d \in Docs : OpenDocCall(d) /\ Called /\ UNCHANGED llmVars
    \/ \E t \in Tasks : \E outcome \in Outcomes : ImportResp(t, outcome) /\ UNCHANGED <<started, llmVars>>
    \/ \E t \in Tasks : PollDone(t) /\ UNCHANGED <<started, llmVars>>
    \/ \E t \in Tasks : ManifestResp(t) /\ UNCHANGED <<started, llmVars>>
    \/ \E t \in Tasks : GetDocumentResp(t) /\ UNCHANGED <<started, llmVars>>
    \/ \E t \in Tasks : GetPageResp(t) /\ UNCHANGED <<started, llmVars>>
    \/ \E t \in Tasks : RenderDone(t) /\ UNCHANGED <<started, llmVars>>
    \/ \E d \in Docs : DeleteCall(d) /\ Called /\ UNCHANGED llmVars
    \/ \E t \in Tasks : \E deleted \in BOOLEAN : DeleteResp(t, deleted) /\ UNCHANGED <<started, llmVars>>
    \/ \E t \in Tasks : DeleteListResp(t) /\ UNCHANGED <<started, llmVars>>
    \/ \E t \in Tasks : RequestFails(t) /\ UNCHANGED <<started, llmVars>>

SpecFail == Init /\ [][NextFail]_vars

\* ------------------------------------------------------------ overlapping navigation
\* queries and goToHit calls only: no manual open, no delete, no clear
NextNav ==
    \/ \E t \in Tasks : BootResp(t) /\ UNCHANGED <<started, llmVars>>
    \/ \E q \in ChatInputs : SendChatCall(q) /\ UNCHANGED <<started, llmVars>>
    \/ \E t \in Tasks : \E ord \in OrdersOver(serverDocs) : ChatResp(t, ord) /\ UNCHANGED <<started, llmVars>>
    \/ PrevClick /\ UNCHANGED <<started, llmVars>>
    \/ NextClick /\ UNCHANGED <<started, llmVars>>
    \/ \E k \in DOMAIN matchesList : MatchClick(k) /\ UNCHANGED <<started, llmVars>>
    \/ \E t \in Tasks : \E outcome \in Outcomes : ImportResp(t, outcome) /\ UNCHANGED <<started, llmVars>>
    \/ \E t \in Tasks : PollDone(t) /\ UNCHANGED <<started, llmVars>>
    \/ \E t \in Tasks : ManifestResp(t) /\ UNCHANGED <<started, llmVars>>
    \/ \E k \in DOMAIN container : ImgLoad(k) /\ UNCHANGED <<started, llmVars>>
    \/ \E t \in Tasks : GetDocumentResp(t) /\ UNCHANGED <<started, llmVars>>
    \/ \E t \in Tasks : GetPageResp(t) /\ UNCHANGED <<started, llmVars>>
    \/ \E t \in Tasks : RenderDone(t) /\ UNCHANGED <<started, llmVars>>

SpecNav == Init /\ [][NextNav]_vars

\* ------------------------------------------------------------ placement
\* normalized rects [x0,y0,x1,y1] with x0 < x1 and y0 < y1, in tenths
UnitRects == {r \in Tenths \X Tenths \X Tenths \X Tenths : r[1] < r[3] /\ r[2] < r[4]}

\* the sizes a mounted layer can have
LayerSizes == (Lengths \ {0}) \X (Lengths \ {0})

\* the results of a response with one hit, rect r on page 0 of d1
OneHit(r) == <<[doc_id |-> "d1", total_hits |-> 1,
                highlights |-> <<[page |-> 0, rects |-> <<r>>]>>]>>

\* d1 is open, its one page rendered by the vector backend with a layer of
\* size sz, and a query has been dispatched
InitRect ==
    \E sz \in LayerSizes :
        /\ docs = Docs
        /\ currentDocId = "d1"
        /\ results = NullResults
        /\ order = <<>>
        /\ navIndex = -1
        /\ filter = ""
        /\ docList = renderDocList(docs, "", results)
        /\ container = <<PageDiv("d1", 0, sz[1], sz[2])>>
        /\ hitStatus = MarkupStatus
        /\ prevDisabled = TRUE
        /\ nextDisabled = TRUE
        /\ matchesList = <<>>
        /\ emptyMatches = TRUE
        /\ config = [vendorPath |-> VendorPath, enableCdn |-> "undefined", pdfCdn |-> "null"]
        /\ pdfjsLib = "engine"
        /\ workerSrc = LOCAL_PDF_WORKER
        /\ serverDocs = Docs
        /\ tasks = <<[Task("chat", "sendChat", NoDoc, NoEntry, 0) EXCEPT !.new = TRUE]>>
        /\ calls = 2
        /\ newest = NoQuery
        /\ started = NoSnapshot
        /\ LlmLoaded({NoTransformers}, {"null"})
        /\ last = Last("sendChat", "income", 0, FALSE)

\* the query is answered with one hit on page 0 of d1, which goToHit draws;
\* the user selects the match again, which redraws it
NextRect ==
    \/ \E t \in Tasks : \E r \in UnitRects : ChatRespWith(t, <<Entry("d1", 0)>>, OneHit(r)) /\ UNCHANGED <<started, llmVars>>
    \/ \E k \in DOMAIN matchesList : MatchClick(k) /\ UNCHANGED <<started, llmVars>>

SpecRect == InitRect /\ [][NextRect]_vars

\* ------------------------------------------------------------ claims
\* a step in which the user started goToHit(last'.idx)
GoToHitStep == calls' # calls /\ last'.op = "goToHit"

\* C1: whenever the match-order sequence is non-empty the cursor is in
\* [0, length-1], also after a delete that shortens the sequence.
C1_CursorInRange == Len(order) > 0 => (navIndex >= 0 /\ navIndex <= Len(order) - 1)

\* C2: whenever the match-order sequence is empty the cursor is -1.
C2_EmptyCursor == Len(order) = 0 => navIndex = -1

\* the cursor goToHit(idx) must leave on an order of n entries, stated without
\* the code's clamp
InRangeFor(idx, n, nav) ==
    /\ nav \in 0..(n - 1)
    /\ (idx \in 0..(n - 1)) => nav = idx
    /\ idx < 0 => nav = 0
    /\ idx >= n => nav = n - 1

\* previous at 0 or next at length-1
AtBoundary(idx) ==
    \/ idx = navIndex - 1 /\ navIndex = 0
    \/ idx = navIndex + 1 /\ navIndex = Len(order) - 1

\* C3 as stated: goToHit(idx) clamps the cursor without wraparound; at a
\* boundary it leaves order, results, cursor and the open document unchanged;
\* on an empty order it changes nothing.
C3_Original ==
    [][GoToHitStep =>
         IF Len(order) = 0
         THEN UNCHANGED <<stateVars, domVars, tasks>>
         ELSE /\ InRangeFor(last'.idx, Len(order), navIndex')
              /\ UNCHANGED <<order, results>>
              /\ AtBoundary(last'.idx) => UNCHANGED <<navIndex, currentDocId>>]_vars

\* C3 amended: as C3, but at a boundary the open document is left unchanged
\* only when it already is the document of the entry under the cursor;
\* otherwise goToHit opens that entry's document.
C3_GoToHitClamps ==
    [][GoToHitStep =>
         IF Len(order) = 0
         THEN UNCHANGED <<stateVars, domVars, tasks>>
         ELSE /\ InRangeFor(last'.idx, Len(order), navIndex')
              /\ UNCHANGED <<order, results>>
              /\ AtBoundary(last'.idx) =>
                   /\ UNCHANGED navIndex
                   /\ currentDocId' = order[navIndex + 1].doc_id
                   /\ currentDocId = order[navIndex + 1].doc_id => UNCHANGED tasks]_vars

\* C3 witness: goToHit was called with an index beyond the end of a non-empty
\* order and the cursor stands on the last entry.
C3_Witness ==
    /\ last.op = "goToHit"
    /\ Len(order) > 0
    /\ last.idx >= Len(order)
    /\ navIndex = Len(order) - 1

\* a step in which sendChat processed a response of last'.idx order entries
ChatRespStep == last'.op = "chatResp"

\* C4: on a response sendChat replaces results and order with the response's,
\* sets the cursor to 0 and performs goToHit(0) if the new order is non-empty,
\* and enters Empty (empty order, cursor -1) otherwise.
C4_QueryEntry ==
    [][ChatRespStep =>
         /\ Len(order') = last'.idx
         /\ order' \in OrdersOver(serverDocs)
         /\ results' = ListResults(ResultsOf(order'))
         /\ IF Len(order') > 0
            THEN navIndex' = 0 /\ currentDocId' = order'[1].doc_id
            ELSE navIndex' = -1]_vars

\* every .hl box mounted on a layer of the container
AllBoxes == UNION {{container[k].rects[j] : j \in DOMAIN container[k].rects} :
                   k \in DOMAIN container}

\* C5: once sendChat has returned for the most recently dispatched query, no
\* mounted highlight rectangle comes from an earlier query's results, unless
\* the same highlight is in the most recent query's results too.
C5_NoEarlierHighlights == newest.done => \A b \in AllBoxes : b.rect \in newest.rects

\* the k-th index of s (counting from 1) whose entry is not of docId
KeptIndex(s, docId, k) ==
    CHOOSE j \in DOMAIN s :
        /\ s[j].doc_id # docId
        /\ Cardinality({m \in 1..j : s[m].doc_id # docId}) = k

\* t is s without exactly the entries of docId, the others in their order
IsWithout(s, docId, t) ==
    /\ Len(t) = Cardinality({j \in DOMAIN s : s[j].doc_id # docId})
    /\ \A k \in DOMAIN t : t[k] = s[KeptIndex(s, docId, k)]

\* a step in which deleteDoc(last'.doc) was answered {deleted: true}
DeletedStep == last'.op = "deleteResp" /\ last'.idx >= 1 /\ serverDocs' # serverDocs

OpenPcs == {"import", "poll", "manifest", "getDocument", "getPage", "render"}
NoOpenInFlight == \A t \in Tasks : tasks[t].pc \notin OpenPcs

\* what is mounted, without sizes and boxes
Shape(c) == [k \in DOMAIN c |-> <<c[k].kind, c[k].owner, c[k].page>>]

\* C7: once every open has completed, the viewing area holds exactly the page
\* surfaces and layers of the most recently opened document, one per page in
\* order, and none of a stale render (no document was deleted).
C7_LastRenderWins ==
    (NoOpenInFlight /\ currentDocId \in Docs /\ serverDocs = Docs) =>
        Shape(container) = [k \in 1..PagesOf(currentDocId) |-> <<"page", currentDocId, k - 1>>]

\* the rects of the current results entry of docId
RectsFor(docId) ==
    IF results.null THEN {}
    ELSE LET k == FindResult(results.list, docId)
         IN IF k = 0 THEN {} ELSE RectsOfHighlights(results.list[k].highlights)

\* C8: after clearResults no highlight is mounted, and once every openDoc and
\* goToHit has completed every mounted highlight was drawn from the current
\* results entry of the open document (no document was deleted).
C8_NoStaleHighlight ==
    /\ results.null => AllBoxes = {}
    /\ (Len(tasks) = 0 /\ serverDocs = Docs) =>
           \A b \in AllBoxes : b.rect \in RectsFor(currentDocId)

\* C9: after every goToHit on a non-empty order the status shows cursor+1,
\* the length and the entry under the cursor, previous is disabled iff the
\* cursor is 0 and next iff it is length-1; after a query dispatch that
\* completes at once this is "Match 1 / n" with the first entry's document open.
C9_StatusAfterGoToHit ==
    /\ (last.ended /\ Len(order) > 0) =>
           /\ navIndex \in 0..(Len(order) - 1)
           /\ hitStatus = [text |-> "Match", m |-> navIndex + 1, n |-> Len(order),
                           doc_name |-> order[navIndex + 1].doc_name,
                           p |-> order[navIndex + 1].page + 1]
           /\ prevDisabled = (navIndex = 0)
           /\ nextDisabled = (navIndex = Len(order) - 1)
    /\ (last.op = "chatResp" /\ last.ended) =>
           /\ navIndex = 0
           /\ currentDocId = order[1].doc_id
           /\ hitStatus.m = 1 /\ hitStatus.n = Len(order)
           /\ prevDisabled
           /\ nextDisabled = ~(Len(order) > 1)

\* C10: a response with an empty order leaves the status "No matches", both
\* controls disabled, the matches list empty, the empty-state indicator shown
\* and no highlight rectangle on any mounted layer.
C10_EmptyResponse ==
    (last.op = "chatResp" /\ last.idx = 0) =>
        /\ hitStatus.text = "No matches"
        /\ prevDisabled /\ nextDisabled
        /\ matchesList = <<>>
        /\ emptyMatches
        /\ AllBoxes = {}

\* C10 witness: an empty response was processed while a document is mounted
\* and the controls had been enabled before.
C10_Witness ==
    /\ last.op = "chatResp" /\ last.idx = 0
    /\ \E k \in DOMAIN container : container[k].kind = "page"

\* a step of clearResults
ClearStep == last'.op = "clearResults"

\* C11: clearResults, from any state, discards results (null), empties the
\* order, sets the cursor to -1, empties every mounted highlight layer and shows
\* "No matches" with both controls disabled; the document list, the filter,
\* the open document and the mounted pages are left unchanged.
C11_ClearEntersEmpty ==
    [][ClearStep =>
         /\ results' = NullResults
         /\ order' = <<>>
         /\ navIndex' = -1
         /\ AllBoxes' = {}
         /\ hitStatus'.text = "No matches"
         /\ prevDisabled' /\ nextDisabled'
         /\ Shape(container') = Shape(container)
         /\ UNCHANGED <<docs, docList, filter, currentDocId>>]_vars

\* C11 witness: clearResults discarded a non-empty order while a document was
\* open and mounted.
C11_Witness ==
    /\ last.op = "clearResults" /\ last.idx >= 1
    /\ currentDocId \in Docs
    /\ \E k \in DOMAIN container : container[k].kind = "page"

\* empty or whitespace-only input
BlankInputs == {"", " "}

\* C12: sendChat with empty or whitespace-only input sends no request and
\* leaves results, order, cursor, open document, highlights and status unchanged.
C12_BlankInputNoOp ==
    [][(last'.op = "sendChat" /\ last'.doc \in BlankInputs) =>
         UNCHANGED <<stateVars, listVars, domVars, tasks, newest>>]_vars

\* C12 witness: sendChat ran on whitespace-only input while a query's matches
\* were shown.
C12_Witness == last.op = "sendChat" /\ last.doc = " " /\ Len(order) > 0 /\ AllBoxes # {}

\* C13: drawing the highlights of a document twice in a row, results and
\* mounted layers unchanged, leaves every layer with the same rectangles as
\* drawing once.
C13_RedrawIdempotent ==
    \A d \in Docs :
        LET once == drawHighlightsForDoc(container, results, d)
        IN drawHighlightsForDoc(once, results, d) = once

\* C13 witness: goToHit has just returned after openDoc drew the document's
\* highlights and goToHit drew them again, and rectangles are mounted.
C13_Witness ==
    /\ last.ended
    /\ AllBoxes # {}
    /\ drawHighlightsForDoc(container, results, currentDocId) = container

\* C14: every mounted box of a normalized rect [x0,y0,x1,y1] on a layer of
\* size W x H has left = x0*W, top = y0*H, width = (x1-x0)*W and
\* height = (y1-y0)*H exactly; for [0.1, 0.2, 0.5, 0.6] on 800 x 1000 that is
\* 80, 200, 320 and 400.
C14_RectPlacement ==
    \A k \in DOMAIN container : \A j \in DOMAIN container[k].rects :
        LET b == container[k].rects[j]
            r == b.rect
            w == container[k].w
            h == container[k].h
        IN /\ b.left = Exactly((r[1] * w) \div 10)
           /\ b.top = Exactly((r[2] * h) \div 10)
           /\ b.width = Exactly(((r[3] - r[1]) * w) \div 10)
           /\ b.height = Exactly(((r[4] - r[2]) * h) \div 10)

\* how many invocations of ts are suspended at a pc of pcs
CountAt(ts, pcs) == Cardinality({t \in DOMAIN ts : ts[t].pc \in pcs})

\* C15: once ensurePdfJsReady has returned null after trying all sources and
\* polling, the next open loads no source again; once an engine is set, no
\* later call loads a source.
C15_SelectionCached ==
    [][((last.op = "poll" /\ last.doc = NoLib) \/ pdfjsLib # NoLib) =>
         CountAt(tasks', {"import"}) <= CountAt(tasks, {"import"})]_vars

\* C16: while a vector engine is loaded in the runtime no open starts the
\* raster backend, whatever the configuration of sources.
C16_PreloadedEngineUsed ==
    [][pdfjsLib = "engine" =>
         CountAt(tasks', {"manifest"}) <= CountAt(tasks, {"manifest"})]_vars

\* the opt-in as the claim words it: the stored preference when it is '1' or
\* '0', else the configured boolean, else false
OptIn(cfg) ==
    CASE cfg.pdfCdn = "1" -> TRUE
      [] cfg.pdfCdn = "0" -> FALSE
      [] cfg.enableCdn = "true" -> TRUE
      [] OTHER -> FALSE

VectorPcs == {"import", "poll", "getDocument", "getPage", "render"}

\* C17: the source list is the vendor path first if configured, regardless of
\* the opt-in, then the remote sources only if the opt-in is true; with no
\* vendor path and no opt-in no source is loaded and every open is rendered by
\* the raster backend.
C17_SourceList ==
    /\ PDF_URLS = (IF config.vendorPath = NoUrl THEN <<>> ELSE <<config.vendorPath>>)
                  \o (IF OptIn(config) THEN <<JsDelivr, Unpkg>> ELSE <<>>)
    /\ (config.vendorPath = NoUrl /\ ~OptIn(config)) =>
           /\ CountAt(tasks, VectorPcs) = 0
           /\ workerSrc = NoUrl

\* C17 witness: the stored preference '0' overrides the configured opt-in, and
\* the vendor path is being loaded all the same.
C17_Witness ==
    /\ config.pdfCdn = "0" /\ config.enableCdn = "true"
    /\ \E t \in Tasks : tasks[t].pc = "import" /\ PDF_URLS[tasks[t].i] = VendorPath

\* the source indices of the invocations suspended at an import, summed
ImportSum(ts) ==
    LET S == {t \in DOMAIN ts : ts[t].pc = "import"}
    IN Cardinality({t \in S : ts[t].i = 1}) + 2 * Cardinality({t \in S : ts[t].i = 2})
       + 3 * Cardinality({t \in S : ts[t].i = 3})

\* C18: the sources are tried in list order; a source that resolves with the
\* entry points is adopted, its worker path set to the local worker path if
\* it is local and to the sibling of its URL otherwise, and no later source
\* is tried; a source that resolves without the entry points is not adopted.
C18_FirstEngineWins ==
    [][last'.op = "import" =>
         LET i == last'.idx
             url == PDF_URLS[i]
         IN CASE last'.doc = "rejects" ->
                   /\ UNCHANGED <<pdfjsLib, workerSrc>>
                   /\ i < Len(PDF_URLS) =>
                        /\ CountAt(tasks', {"import"}) = CountAt(tasks, {"import"})
                        /\ ImportSum(tasks') = ImportSum(tasks) + 1
              [] last'.doc = "engine" ->
                   /\ pdfjsLib' = "engine"
                   /\ workerSrc' = IF url.origin = "" THEN LOCAL_PDF_WORKER
                                    ELSE [url EXCEPT !.file = "pdf.worker.min.mjs"]
                   /\ CountAt(tasks', {"import"}) = CountAt(tasks, {"import"}) - 1
              [] last'.doc = "module" ->
                   UNCHANGED <<pdfjsLib, workerSrc>>]_vars

\* the hit count the list must show for document d under the current results
CountOf(d) ==
    IF results.null \/ \A k \in DOMAIN results.list : results.list[k].doc_id # d THEN 0
    ELSE LET k == CHOOSE j \in DOMAIN results.list : results.list[j].doc_id = d
         IN results.list[k].total_hits

\* C19: whenever no operation is in flight, the hit count shown for every
\* listed document is 0 if the current results hold no entry for it (also
\* after clearResults) and that entry's total_hits otherwise.
C19_ListCountsCurrent ==
    Len(tasks) = 0 => \A d \in DOMAIN docList : docList[d] = CountOf(d)

\* C20: when the store answers a delete with deleted = false, docs, results,
\* order, cursor, open document, mounted pages and highlights, the status and
\* the document list are exactly as before.
C20_DeleteRefused ==
    [][(last'.op = "deleteResp" /\ last'.idx = 0) =>
         UNCHANGED <<stateVars, listVars, domVars, envVars>>]_vars

\* C20 witness: the store refused to delete the open document, which has
\* entries in the order.
C20_Witness ==
    /\ last.op = "deleteResp" /\ last.idx = 0
    /\ currentDocId = last.doc
    /\ \E k \in DOMAIN order : order[k].doc_id = last.doc

\* C21: when a request made by sendChat, deleteDoc, openDoc or goToHit
\* fails, docs, results, order, cursor and the open id are exactly as they
\* were when the operation was called.
C21_FailureLeavesState ==
    [][(last'.op = "fails" /\ last'.doc # "boot") => stateVars' = started]_vars

\* C22: when a successful deleteDoc(d) completes, d is not listed and no
\* result or order entry references d; if d was the open document and no
\* document has been opened since, the viewing area holds the placeholder
\* alone, also when an open of d was still rendering.
C22_DeletedGone ==
    [][last'.op = "deleteDone" =>
         LET d == last'.doc
         IN /\ d \notin docs' /\ d \notin DOMAIN docList'
            /\ \A k \in DOMAIN order' : order'[k].doc_id # d
            /\ \A k \in DOMAIN results'.list : results'.list[k].doc_id # d
            /\ (last'.idx = 1 /\ currentDocId' = NoDoc) => container' = <<Placeholder>>]_vars

\* task t is at position pc of renderPDFjs with page number i
VectorAt(ts, t, pc, i) == t \in DOMAIN ts /\ ts[t].pc = pc /\ ts[t].i = i

\* the sizes of the mounted layers
Sizes(c) == [k \in DOMAIN c |-> <<c[k].w, c[k].h>>]

\* C25: in the vector backend the render of page N begins only from the
\* getPage of page N, which follows the settled render of page N-1, so one
\* open has one render in flight; the layer of page N is mounted with the
\* viewport's size in the step that starts its render, and no later step of
\* the render changes the size of a mounted layer.
C25_SequentialRender ==
    [][\A t \in DOMAIN tasks' : Len(tasks') = Len(tasks) /\ tasks'[t] # tasks[t] =>
         /\ tasks'[t].pc = "render" =>
               /\ VectorAt(tasks, t, "getPage", tasks'[t].i)
               /\ container' = Append(container,
                     [kind |-> "page", owner |-> tasks[t].doc, page |-> tasks[t].i - 1,
                      w |-> PageSize.w, h |-> PageSize.h, rects |-> <<>>])
         /\ (tasks'[t].pc = "getPage" /\ tasks'[t].i > 1) =>
               /\ VectorAt(tasks, t, "render", tasks'[t].i - 1)
               /\ Sizes(container') = Sizes(container)
         /\ tasks[t].pc = "render" => tasks'[t].pc = "getPage"]_vars

\* C25 witness: the second page of a document is rendering, and the layers
\* of both pages are mounted with their final size.
C25_Witness ==
    \E t \in Tasks :
        /\ VectorAt(tasks, t, "render", 2)
        /\ Len(container) = 2
        /\ \A k \in DOMAIN container :
              /\ container[k].kind = "page" /\ container[k].owner = tasks[t].doc
              /\ container[k].page = k - 1
              /\ container[k].w = PageSize.w /\ container[k].h = PageSize.h

\* a .hl box of no area
ZeroArea(b) == b.width = Exactly(0) /\ b.height = Exactly(0)

\* every box on the layers of c has no area exactly when its layer has no size
AreaBySize(c) ==
    \A k \in DOMAIN c : \A j \in DOMAIN c[k].rects :
        /\ c[k].w = 0 => ZeroArea(c[k].rects[j])
        /\ c[k].w > 0 => /\ c[k].rects[j].width # Exactly(0)
                         /\ c[k].rects[j].height # Exactly(0)

\* C26: renderImages mounts every page with a layer of zero size, and the
\* highlights drawn then have no area; a layer gets its size when its own
\* image loads, in any order, and that load changes nothing else, so the
\* boxes drawn before keep their zero area; a redraw gives every box on a
\* loaded layer its area.
C26_RasterLayers ==
    /\ [](\A d \in Docs : AreaBySize(drawHighlightsForDoc(container, results, d)))
    /\ [][/\ last'.op = "manifest" =>
               \A k \in DOMAIN container' :
                   k > last'.idx => /\ container'[k].kind = "page"
                                    /\ container'[k].w = 0 /\ container'[k].h = 0
                                    /\ \A j \in DOMAIN container'[k].rects :
                                           ZeroArea(container'[k].rects[j])
          /\ last'.op = "imgLoad" =>
               /\ container[last'.idx].w = 0
               /\ container' = [container EXCEPT ![last'.idx].w = PageSize.w,
                                                 ![last'.idx].h = PageSize.h]]_vars

\* C26 witness: the image of the second page has loaded before that of the
\* first, and the highlights drawn on its layer before the load still have
\* no area.
C26_Witness ==
    /\ last.op = "imgLoad" /\ last.idx = 2
    /\ container[1].kind = "page" /\ container[1].w = 0
    /\ container[2].w = PageSize.w
    /\ container[2].rects # <<>>
    /\ \A j \in DOMAIN container[2].rects : ZeroArea(container[2].rects[j])

\* the first awaits of the two renderers
BackendPcs == {"getDocument", "manifest"}

\* C27: when ensurePdfJsReady returns, from a source that resolved or from
\* its polling loop, the open that awaited it goes on in exactly one of the
\* two backends; a source that rejects is followed by the next source or by
\* the polling loop.
C27_SelectionEnds ==
    [][/\ (last'.op = "poll" \/ (last'.op = "import" /\ last'.doc # "rejects")) =>
            /\ CountAt(tasks', BackendPcs) = CountAt(tasks, BackendPcs) + 1
            /\ Len(tasks') = Len(tasks)
       /\ (last'.op = "import" /\ last'.doc = "rejects") => Len(tasks') = Len(tasks)]_vars

\* C28: under queries and goToHit calls only, once none is in flight and the
\* order is non-empty, the open document is the document of the entry under
\* the cursor, and the status line shows that entry.
C28_CursorAgrees ==
    (Len(tasks) = 0 /\ Len(order) > 0) =>
        /\ navIndex \in 0..(Len(order) - 1)
        /\ currentDocId = order[navIndex + 1].doc_id
        /\ hitStatus = [text |-> "Match", m |-> navIndex + 1, n |-> Len(order),
                        doc_name |-> order[navIndex + 1].doc_name,
                        p |-> order[navIndex + 1].page + 1]

\* C23: generateDraft resolves with the model's draft when the generator
\* was called and gave a well-formed draft, and with the template draft in
\* every other case (model not loaded, load failed, generator threw, output
\* not parsable or incomplete); it never rejects.
C23_DraftAlwaysResolves ==
    [][last'.op = "draft" =>
         /\ last'.doc = (IF last'.idx = 1 THEN "model" ELSE "template")
         /\ last'.idx = 1 => last'.ended]_vars

\* C23 witness: the model is ready, the generator was called and failed, and
\* the template draft was returned.
C23_Witness ==
    /\ last.op = "draft" /\ last.doc = "template" /\ last.ended
    /\ ready /\ generator # NoGenerator /\ status = "ready"

\* C24: while the flag is off and no vendor path is configured no load is
\* in flight, ready is true, there is no generator and generateDraft returns
\* the template; an enableCdn() that finds the flag off turns it on, stores
\* '1' and starts a forced load from the first source; when enableCdn()
\* resolves ready is true and the status is 'ready' with a generator or a
\* template status with none.
C24_TemplateUnlessAllowed ==
    /\ []((~useTransformersCdn /\ transformersConfig.vendorPath = NoUrl) =>
             /\ CountAt(tasks, LoadPcs) = 0
             /\ ready /\ generator = NoGenerator /\ status \in TemplateStatus)
    /\ [][/\ (~useTransformersCdn /\ transformersConfig.vendorPath = NoUrl
                /\ last'.op = "draft") => last'.doc = "template"
          /\ (last'.op = "enableCdn" /\ last'.doc = "off") =>
                /\ useTransformersCdn' /\ transformersPref' = "1"
                /\ tasks' = Append(tasks, [pc |-> "llmImport", from |-> "enableCdn",
                                           force |-> TRUE, i |-> 1,
                                           urls |-> tasks'[Len(tasks')].urls])
                /\ Len(tasks'[Len(tasks')].urls) >= Len(builtInTransformerCdn)
          /\ last'.op = "enableDone" =>
                /\ ready'
                /\ \/ status' = "ready" /\ generator' # NoGenerator
                   \/ status' \in TemplateStatus /\ generator' = NoGenerator]_vars

\* C24 witness: with the flag off and no vendor path enableCdn() was called,
\* and has resolved with the model ready.
C24_Witness ==
    /\ last.op = "enableDone" /\ last.idx = 1
    /\ transformersConfig.vendorPath = NoUrl
    /\ useTransformersCdn /\ transformersPref = "1"
    /\ ready /\ status = "ready" /\ generator # NoGenerator

\* C29: a non-forced init(), called directly or by generateDraft, while a
\* load is in flight starts no second load.
C29_SingleFlight ==
    [][(/\ CountAt(tasks, LoadPcs) > 0
        /\ \/ last'.op = "init" /\ last'.idx = 0
           \/ last'.op = "generateDraft"
           \/ last'.op = "draft" /\ ~last'.ended) =>
         CountAt(tasks', LoadPcs) <= CountAt(tasks, LoadPcs)]_vars

====
